---- MODULE Spec2Model ----
(***************************************************************************)
(* Model of the trading-signal bot (src/app/main.py,                       *)
(* src/app/services/trading_bot.py, src/services/chart_service.py) and of  *)
(* the chart capture service (src/main.py).                                *)
(*                                                                         *)
(* Three specifications share the variables:                               *)
(*   SpecChart      the chart capture service, one step per statement      *)
(*                  group of capture_tradingview_chart;                    *)
(*   Spec           the bot process: process_signal, handle_button_click,  *)
(*                  the /analyze and /health endpoints;                    *)
(*   SpecSentiment  analyze_sentiment calls, split at the await of the     *)
(*                  language-model request, so that calls overlap.         *)
(* Strings the code parses are sequences of one-character strings.         *)
(***************************************************************************)
EXTENDS Integers, Sequences, FiniteSets, TLC

VARIABLES
    \* ---- chart capture service (src/main.py) ----
    pc,           \* position inside capture_tradingview_chart / get_chart
    max_retries,  \* the max_retries argument
    attempt,      \* the loop variable of "for attempt in range(max_retries)"
    after,        \* what the pending return/continue does once finally ran
    browsers,     \* browser instances launched and not closed
    launched,     \* browser instances launched so far
    attempts,     \* history: one record per attempt started
    screenshot,   \* the local variable screenshot
    result,       \* the value capture_tradingview_chart returned
    response,     \* the HTTP status get_chart answered
    \* ---- bot process (src/app/...) ----
    now,          \* wall clock, seconds
    cache,        \* the redis store: key -> entry
    botSet,       \* TradingBot._bot is not None
    stored,       \* history: per symbol, the last text written to the cache
    lastReq,      \* history: per symbol, time of the last model request
    pending,      \* analyze_sentiment calls awaiting the language model
    calls,        \* direct analyze_sentiment calls begun (AnalyzeBegin)
    last          \* the outcome of the last completed operation

chartVars == <<pc, max_retries, attempt, after, browsers, launched, attempts,
               screenshot, result, response>>
botVars == <<now, cache, botSet, stored, lastReq, pending, calls, last>>
vars == <<pc, max_retries, attempt, after, browsers, launched, attempts,
          screenshot, result, response,
          now, cache, botSet, stored, lastReq, pending, calls, last>>

None == "None"

(***************************************************************************)
(* Bounds                                                                  *)
(***************************************************************************)
MaxRetriesArg == 3

(***************************************************************************)
(* Chart capture service: capture_tradingview_chart                        *)
(***************************************************************************)
NoResult == <<"pending">>
Shots == {"png"}

\* One entry of the attempt history.
NewAttempt == [failed |-> "none", quits |-> 0, quitRaised |-> FALSE]

MarkFailed(step) ==
    [attempts EXCEPT ![Len(attempts)].failed = step]

\* "if attempt < max_retries - 1: continue" else "return None, False"
RetryMutant(a, m) == a < m - 2
Retry(a, m) == a < m - 1

\* for attempt in range(max_retries): ... / return None, False (line 154)
CaptureLoop ==
    /\ pc = "loop"
    /\ IF attempt < max_retries
          THEN /\ pc' = "setup"
               /\ attempts' = Append(attempts, NewAttempt)
               /\ UNCHANGED result
          ELSE /\ pc' = "returned"
               /\ result' = <<None, FALSE>>
               /\ UNCHANGED attempts
    /\ UNCHANGED <<max_retries, attempt, after, browsers, launched,
                   screenshot, response>>
    /\ UNCHANGED botVars

\* driver = setup_driver(): webdriver.Chrome() may raise (no browser), or
\* set_window_size / set_page_load_timeout may raise after the launch; both
\* are re-raised by setup_driver and reach the outer except.
SetupDriver ==
    /\ pc = "setup"
    /\ \E outcome \in {"ok", "launch_fail", "config_fail"} :
         /\ IF outcome = "launch_fail"
               THEN UNCHANGED <<browsers, launched>>
               ELSE /\ browsers' = browsers + 1
                    /\ launched' = launched + 1
         /\ IF outcome = "ok"
               THEN /\ pc' = "navigate"
                    /\ UNCHANGED attempts
               ELSE /\ pc' = "except_outer"
                    /\ attempts' = MarkFailed("Setup")
    /\ UNCHANGED <<max_retries, attempt, after, screenshot, result, response>>
    /\ UNCHANGED botVars

\* One step of the inner try block; a raise goes to the inner except.
InnerStep(here, name, next) ==
    /\ pc = here
    /\ \E ok \in BOOLEAN :
         IF ok THEN /\ pc' = next
                    /\ UNCHANGED attempts
               ELSE /\ pc' = "except_inner"
                    /\ attempts' = MarkFailed(name)
    /\ UNCHANGED <<max_retries, attempt, after, browsers, launched,
                   screenshot, result, response>>
    /\ UNCHANGED botVars

\* driver.get(url); WebDriverWait(driver, 20).until(...)
Navigate == InnerStep("navigate", "Navigate", "settle")

\* time.sleep(5)
Settle ==
    /\ pc = "settle"
    /\ pc' = "declutter"
    /\ UNCHANGED <<max_retries, attempt, after, browsers, launched, attempts,
                   screenshot, result, response>>
    /\ UNCHANGED botVars

\* driver.execute_script(...)
Declutter == InnerStep("declutter", "Declutter", "capture")

\* screenshot = driver.get_screenshot_as_png(); return screenshot, True
Capture ==
    /\ pc = "capture"
    /\ \/ \E shot \in Shots :
            /\ screenshot' = shot
            /\ after' = "return_ok"
            /\ pc' = "finally"
            /\ UNCHANGED attempts
       \/ /\ pc' = "except_inner"
          /\ attempts' = MarkFailed("Capture")
          /\ UNCHANGED <<screenshot, after>>
    /\ UNCHANGED <<max_retries, attempt, browsers, launched, result, response>>
    /\ UNCHANGED botVars

\* except Exception (inner): continue, or return None, False; the finally
\* clause runs before either takes effect.
InnerExcept ==
    /\ pc = "except_inner"
    /\ after' = IF Retry(attempt, max_retries) THEN "continue"
                                               ELSE "return_fail"
    /\ pc' = "finally"
    /\ UNCHANGED <<max_retries, attempt, browsers, launched, attempts,
                   screenshot, result, response>>
    /\ UNCHANGED botVars

\* finally: try: driver.quit() except Exception: log.  A quit that raises
\* may or may not have closed the browser.
Teardown ==
    /\ pc = "finally"
    /\ \E outcome \in {"closed", "raised_closed", "raised_open"} :
         /\ attempts' = [attempts EXCEPT
                ![Len(attempts)].quits = @ + 1,
                ![Len(attempts)].quitRaised = (outcome # "closed")]
         /\ browsers' = IF outcome = "raised_open" THEN browsers
                                                   ELSE browsers - 1
    /\ CASE after = "return_ok" ->
              /\ result' = <<screenshot, TRUE>>
              /\ pc' = "returned"
              /\ UNCHANGED attempt
         [] after = "continue" ->
              /\ attempt' = attempt + 1
              /\ pc' = "loop"
              /\ UNCHANGED result
         [] OTHER ->
              /\ result' = <<None, FALSE>>
              /\ pc' = "returned"
              /\ UNCHANGED attempt
    /\ UNCHANGED <<max_retries, after, launched, screenshot, response>>
    /\ UNCHANGED botVars

\* except Exception (outer): continue, or return None, False
OuterExcept ==
    /\ pc = "except_outer"
    /\ IF Retry(attempt, max_retries)
          THEN /\ attempt' = attempt + 1
               /\ pc' = "loop"
               /\ UNCHANGED result
          ELSE /\ result' = <<None, FALSE>>
               /\ pc' = "returned"
               /\ UNCHANGED attempt
    /\ UNCHANGED <<max_retries, after, browsers, launched, attempts,
                   screenshot, response>>
    /\ UNCHANGED botVars

\* get_chart: "if success and screenshot" -> 200 with the image, else 500
GetChart ==
    /\ pc = "returned"
    /\ response' = IF result[2] /\ result[1] # None /\ result[1] # ""
                      THEN 200 ELSE 500
    /\ pc' = "responded"
    /\ UNCHANGED <<max_retries, attempt, after, browsers, launched, attempts,
                   screenshot, result>>
    /\ UNCHANGED botVars

(***************************************************************************)
(* Strings: sequences of one-character strings                             *)
(***************************************************************************)
\* str.startswith
StartsWith(s, p) == Len(s) >= Len(p) /\ SubSeq(s, 1, Len(p)) = p

\* str.split("_"): every underscore separates, empty parts are kept
RECURSIVE SplitAcc(_, _, _, _)
SplitAcc(s, i, cur, acc) ==
    IF i > Len(s) THEN Append(acc, cur)
    ELSE IF s[i] = "_" THEN SplitAcc(s, i + 1, <<>>, Append(acc, cur))
    ELSE SplitAcc(s, i + 1, Append(cur, s[i]), acc)

Split(s) == SplitAcc(s, 1, <<>>, <<>>)

\* str(n) of a non-negative integer
Digit(d) == <<"0", "1", "2", "3", "4", "5", "6", "7", "8", "9">>[d + 1]

RECURSIVE ToStr(_)
ToStr(n) == IF n < 10 THEN <<Digit(n)>> ELSE ToStr(n \div 10) \o <<Digit(n % 10)>>

EURUSD == <<"E", "U", "R", "U", "S", "D">>
BTC_USD == <<"B", "T", "C", "_", "U", "S", "D">>
Symbols == {EURUSD, BTC_USD}
H1 == <<"1", "h">>
M15 == <<"1", "5", "m">>
Timeframes == {H1, M15}

\* TradingSignal payloads as the webhook delivers them
Signal(sym, tf) ==
    [market |-> "forex", instrument |-> sym, timeframe |-> tf,
     symbol |-> sym, action |-> "BUY", price |-> 1]
Signals == {Signal(EURUSD, H1), Signal(BTC_USD, M15)}

(***************************************************************************)
(* Sentiment Fetcher: TradingBot.analyze_sentiment                         *)
(***************************************************************************)
TTL == 300
\* the clock advances in steps of half the time-to-live
Tick == TTL \div 2
MaxTime == 300
MaxCalls == 3
Fallback == "Sentiment analysis unavailable"
Texts == {"bullish", "bearish"}

\* f"sentiment:{symbol}"
CacheKey(symbol) ==
    <<"s", "e", "n", "t", "i", "m", "e", "n", "t", ":">> \o symbol
Keys == {CacheKey(s) : s \in Symbols}

NoEntry == [held |-> FALSE, val |-> "", exp |-> 0]
Nil == [nil |-> TRUE, bytes |-> ""]

\* redis_client.get(key): the value while the key has not expired, else None
RedisGet(c, key, t) ==
    IF c[key].held /\ t < c[key].exp
       THEN [nil |-> FALSE, bytes |-> c[key].val]
       ELSE Nil

\* redis_client.setex(key, ttl, value)
RedisSetexMutant(c, key, ttl, value, t) ==
    [c EXCEPT ![key] = [held |-> TRUE, val |-> value, exp |-> t]]
RedisSetex(c, key, ttl, value, t) ==
    [c EXCEPT ![key] = [held |-> TRUE, val |-> value, exp |-> t + ttl]]

\* "if cached:" -- None and b"" are falsy
Truthy(b) == ~b.nil /\ b.bytes # ""

\* cached.decode()
Decode(b) == b.bytes

\* What openai_client.chat.completions.create can produce: an API error, a
\* response without choices, a choice whose content is None, or a text.
Responses ==
    {[kind |-> k, content |-> ""] : k \in {"error", "nochoices", "null"}}
    \cup {[kind |-> "text", content |-> t] : t \in Texts \cup {""}}

\* Lines 65-71: sentiment = response.choices[0].message.content;
\* redis_client.setex(...); return sentiment; any exception -> fallback.
\* setex of None raises inside redis.
AfterModel(c, t, symbol, resp, setOk) ==
    IF resp.kind # "text" \/ ~setOk
       THEN [ret |-> Fallback, cache |-> c, wrote |-> FALSE]
       ELSE [ret |-> resp.content,
             cache |-> RedisSetex(c, CacheKey(symbol), TTL, resp.content, t),
             wrote |-> TRUE]

\* Lines 51-56: the cache read; a redis error -> fallback.
BeforeModel(c, t, symbol, getOk) ==
    IF ~getOk THEN [done |-> TRUE, ret |-> Fallback]
    ELSE LET cached == RedisGet(c, CacheKey(symbol), t)
         IN  IF Truthy(cached) THEN [done |-> TRUE, ret |-> Decode(cached)]
                               ELSE [done |-> FALSE, ret |-> ""]

\* The whole call, when nothing runs between its cache read and its return.
AnalyzeSentiment(c, t, symbol, getOk, resp, setOk) ==
    LET b == BeforeModel(c, t, symbol, getOk)
        a == AfterModel(c, t, symbol, resp, setOk)
    IN  IF b.done
           THEN [ret |-> b.ret, cache |-> c, requested |-> FALSE,
                 wrote |-> FALSE]
           ELSE [ret |-> a.ret, cache |-> a.cache, requested |-> TRUE,
                 wrote |-> a.wrote]

\* History kept for the claims: the time of the latest request per symbol
\* (-1: none yet), and the latest text written under the symbol's key.
NoRequests == 0 - 1
NoteRequest(lr, symbol, t) == [lr EXCEPT ![symbol] = t]
NoteStore(st, symbol, text, t) ==
    [st EXCEPT ![symbol] = [held |-> TRUE, val |-> text, at |-> t]]
NothingStored == [held |-> FALSE, val |-> "", at |-> 0]

\* Time passes.
Advance ==
    /\ now + Tick <= MaxTime
    /\ now' = now + Tick
    /\ UNCHANGED <<cache, botSet, stored, lastReq, pending, calls, last>>
    /\ UNCHANGED chartVars

\* A call of analyze_sentiment up to its await: it returns at once on a redis
\* error or a cache hit, else it issues the request and waits.
AnalyzeBegin ==
    \E symbol \in Symbols, getOk \in BOOLEAN :
       LET b == BeforeModel(cache, now, symbol, getOk)
       IN  /\ calls < MaxCalls
           /\ calls' = calls + 1
           /\ IF b.done
                 THEN /\ last' = [op |-> "analyze_sentiment", symbol |-> symbol,
                                  start |-> now, getOk |-> getOk,
                                  prior |-> stored[symbol],
                                  requested |-> FALSE, raised |-> FALSE,
                                  source |-> IF getOk THEN "cache" ELSE "fallback",
                                  ret |-> b.ret]
                      /\ UNCHANGED <<pending, lastReq>>
                 ELSE /\ pending' = pending \cup
                            {[symbol |-> symbol, start |-> now,
                              prior |-> stored[symbol],
                              prevReq |-> lastReq[symbol],
                              overlaps |-> \E q \in pending :
                                              q.symbol = symbol]}
                      /\ lastReq' = NoteRequest(lastReq, symbol, now)
                      /\ UNCHANGED last
           /\ UNCHANGED <<now, cache, botSet, stored>>
           /\ UNCHANGED chartVars

\* The language model answers a waiting call, which then runs to its return.
AnalyzeFinish ==
    \E p \in pending, resp \in Responses, setOk \in BOOLEAN :
       LET a == AfterModel(cache, now, p.symbol, resp, setOk)
       IN  /\ pending' = pending \ {p}
           /\ cache' = a.cache
           /\ stored' = IF a.wrote
                           THEN NoteStore(stored, p.symbol, resp.content, now)
                           ELSE stored
           /\ last' = [op |-> "analyze_sentiment", symbol |-> p.symbol,
                       start |-> p.start, getOk |-> TRUE, prior |-> p.prior,
                       requested |-> TRUE, raised |-> FALSE,
                       source |-> IF a.wrote THEN "model" ELSE "fallback",
                       ret |-> a.ret]
           /\ UNCHANGED <<now, botSet, lastReq, calls>>
           /\ UNCHANGED chartVars

(***************************************************************************)
(* Subscriber lookup and dispatch: match_subscribers, send_signal_message, *)
(* process_signal                                                          *)
(***************************************************************************)
MaxRows == 2

Row(u, m, sym, tf) ==
    [user_id |-> u, market |-> m, instrument |-> sym, timeframe |-> tf]

\* Rows the signal_preferences table can hold.
Rows == {Row(7, "forex", EURUSD, H1), Row(42, "forex", EURUSD, H1),
         Row(7, "crypto", BTC_USD, M15)}

RECURSIVE SeqsUpTo(_, _)
SeqsUpTo(S, n) ==
    IF n = 0 THEN {<<>>}
    ELSE LET shorter == SeqsUpTo(S, n - 1)
         IN  shorter \cup {Append(q, x) : q \in shorter, x \in S}

Tables == SeqsUpTo(Rows, MaxRows)

\* .eq("market", ...).eq("instrument", ...).eq("timeframe", ...).execute()
MatchesSignal(r, signal) ==
    /\ r.market = signal.market
    /\ r.instrument = signal.instrument
    /\ r.timeframe = signal.timeframe

Select(table, signal) == SelectSeq(table, LAMBDA r : MatchesSignal(r, signal))

\* match_subscribers: [str(pref["user_id"]) for pref in response.data], or
\* [] when the directory access raises
MatchSubscribersMutant(signal, dirOk, table) ==
    [i \in 1..Len(table) |-> ToStr(table[i].user_id)]
MatchSubscribers(signal, dirOk, table) ==
    IF ~dirOk THEN <<>>
    ELSE LET data == Select(table, signal)
         IN  [i \in 1..Len(data) |-> ToStr(data[i].user_id)]

\* callback_data of the three buttons
ChartPayload(signal) ==
    <<"c", "h", "a", "r", "t", "_">> \o signal.symbol \o <<"_">>
        \o signal.timeframe
SentimentPayload(signal) ==
    <<"s", "e", "n", "t", "i", "m", "e", "n", "t", "_">> \o signal.symbol
CalendarPayload(signal) ==
    <<"c", "a", "l", "e", "n", "d", "a", "r", "_">> \o signal.symbol

\* self._bot.send_message / send_photo: one attempt, which fails when _bot is
\* None (AttributeError) or when the messaging platform rejects it
BotSend(bot, chat, kind, delivered) ==
    [chat |-> chat, kind |-> kind, ok |-> bot /\ delivered]

\* The inline keyboard of a signal message: two rows of buttons
Keyboard(signal) ==
    <<<<ChartPayload(signal), SentimentPayload(signal)>>,
      <<CalendarPayload(signal)>>>>

\* send_signal_message: the send inside try/except Exception; never raises
SendSignalMessageMutant(bot, chat_id, signal, sentiment, delivered) ==
    LET m == BotSend(bot, chat_id, "signal", delivered)
    IN  [sends |-> <<m>>, raised |-> ~m.ok]
SendSignalMessage(bot, chat_id, signal, sentiment, delivered) ==
    LET m == BotSend(bot, chat_id, "signal", delivered)
    IN  [sends |-> <<m>>, raised |-> FALSE]

\* for chat_id in chat_ids: await self.send_signal_message(...)
\* fails: the positions whose send the platform rejects
RECURSIVE Dispatch(_, _, _, _, _, _, _)
Dispatch(bot, chat_ids, i, signal, sentiment, fails, acc) ==
    IF i > Len(chat_ids) THEN [sends |-> acc, raised |-> FALSE]
    ELSE LET r == SendSignalMessage(bot, chat_ids[i], signal, sentiment,
                                    i \notin fails)
         IN  IF r.raised THEN [sends |-> acc \o r.sends, raised |-> TRUE]
             ELSE Dispatch(bot, chat_ids, i + 1, signal, sentiment, fails,
                           acc \o r.sends)

\* What one call of analyze_sentiment can meet: a failing cache read, a
\* failing or malformed model response, or a text with the cache write
\* succeeding or failing.
Outcomes ==
    {[getOk |-> FALSE, resp |-> [kind |-> "error", content |-> ""],
      setOk |-> TRUE]}
    \cup {[getOk |-> TRUE, resp |-> r, setOk |-> TRUE] : r \in Responses}
    \cup {[getOk |-> TRUE, resp |-> r, setOk |-> FALSE] :
             r \in {x \in Responses : x.kind = "text"}}

\* The dict process_signal returns
Success(signal, sentiment, chat_ids) ==
    [raised |-> FALSE, status |-> "success", sent_to |-> Len(chat_ids),
     signal |-> signal, sentiment |-> sentiment]

\* "except Exception: raise"
Raised(signal, sentiment) ==
    [raised |-> TRUE, status |-> "", sent_to |-> 0,
     signal |-> signal, sentiment |-> sentiment]

\* process_signal: the lookup, the sentiment and the dispatch, for every
\* table content, every outcome of the sentiment call and every set of
\* failing sends
ProcessSignal ==
    \E signal \in Signals :
      \E m \in {[chat_ids |-> MatchSubscribers(signal, dirOk, table),
                 dirOk |-> dirOk,
                 matched |-> Len(Select(table, signal))] :
                   dirOk \in BOOLEAN, table \in Tables} :
        \E s \in {AnalyzeSentiment(cache, now, signal.symbol,
                                   o.getOk, o.resp, o.setOk) : o \in Outcomes} :
          \E d \in {Dispatch(botSet, m.chat_ids, 1, signal, s.ret, fails, <<>>) :
                       fails \in SUBSET (1..Len(m.chat_ids))} :
             /\ cache' = s.cache
             /\ stored' = IF s.wrote
                             THEN NoteStore(stored, signal.symbol, s.ret, now)
                             ELSE stored
             /\ lastReq' = IF s.requested
                              THEN NoteRequest(lastReq, signal.symbol, now)
                              ELSE lastReq
             /\ last' = [op |-> "process_signal",
                         ret |-> IF d.raised
                                    THEN Raised(signal, s.ret)
                                    ELSE Success(signal, s.ret, m.chat_ids),
                         chat_ids |-> m.chat_ids, sends |-> d.sends,
                         dirOk |-> m.dirOk, matched |-> m.matched]
             /\ UNCHANGED <<now, botSet, pending, calls>>
             /\ UNCHANGED chartVars

\* TradingBot.initialize(bot)
Initialize ==
    /\ botSet' = TRUE
    /\ UNCHANGED <<now, cache, stored, lastReq, pending, calls, last>>
    /\ UNCHANGED chartVars

(***************************************************************************)
(* Callback handler: TradingBot.handle_button_click                        *)
(***************************************************************************)
Chats == {7, 42}

CHART_ == <<"c", "h", "a", "r", "t", "_">>
SENTIMENT_ == <<"s", "e", "n", "t", "i", "m", "e", "n", "t", "_">>
CALENDAR_ == <<"c", "a", "l", "e", "n", "d", "a", "r", "_">>

\* Payloads a callback can carry: the ones the rendered buttons hold, and
\* others (empty, no separator, a part missing, an unknown action).
Payloads ==
    {ChartPayload(s) : s \in Signals}
    \cup {SentimentPayload(s) : s \in Signals}
    \cup {CalendarPayload(s) : s \in Signals}
    \cup {<<>>,
          <<"c", "h", "a", "r", "t">>,
          <<"c", "h", "a", "r", "t", "_", "X">>,
          <<"n", "e", "w", "s", "_", "X">>}

\* callback_query dicts: "data" and message.chat.id may each be missing
Events ==
    {e \in [hasData : BOOLEAN, data : Payloads,
            hasChat : BOOLEAN, chat : Chats] :
        /\ e.hasData \/ e.data = <<>>
        /\ e.hasChat \/ e.chat = 7}

\* ChartService.generate_chart: the stub returns None
GenerateChart(symbol, interval) == None

NoSends == <<>>

\* Lines 149-166, the body of the try block.  exc: the body raised;
\* bound: chat_id was assigned before it did.
TryBody(bot, e, delivered) ==
    IF ~e.hasData
       THEN [exc |-> TRUE, bound |-> FALSE, sends |-> NoSends, charts |-> <<>>]
    ELSE IF ~e.hasChat
       THEN [exc |-> TRUE, bound |-> FALSE, sends |-> NoSends, charts |-> <<>>]
    ELSE IF ~StartsWith(e.data, CHART_)
       THEN [exc |-> FALSE, bound |-> TRUE, sends |-> NoSends, charts |-> <<>>]
    ELSE LET parts == Split(e.data)
         IN  IF Len(parts) # 3
                THEN [exc |-> TRUE, bound |-> TRUE, sends |-> NoSends,
                      charts |-> <<>>]
                ELSE LET chart_bytes == GenerateChart(parts[2], parts[3])
                         m == BotSend(bot, e.chat,
                                      IF chart_bytes # None THEN "photo"
                                                            ELSE "apology",
                                      delivered)
                     IN  [exc |-> ~m.ok, bound |-> TRUE, sends |-> <<m>>,
                          charts |-> <<<<parts[2], parts[3]>>>>]

\* Lines 168-173, the handler: send the generic error message to chat_id.
\* An unbound chat_id (UnboundLocalError) or a failing send leaves the
\* handler as an exception.
ExceptHandler(bot, e, t, delivered) ==
    IF ~t.exc THEN [raised |-> FALSE, sends |-> t.sends]
    ELSE IF ~bot \/ ~t.bound THEN
         [raised |-> TRUE,
          sends |-> IF t.bound
                       THEN t.sends \o <<BotSend(bot, e.chat, "error",
                                                 delivered)>>
                       ELSE t.sends]
    ELSE LET m == BotSend(bot, e.chat, "error", delivered)
         IN  [raised |-> ~m.ok, sends |-> t.sends \o <<m>>]

HandleButtonClick ==
    \E e \in Events, d1 \in BOOLEAN, d2 \in BOOLEAN :
      \E t \in {TryBody(botSet, e, d1)} :
        \E h \in {ExceptHandler(botSet, e, t, d2)} :
           /\ last' = [op |-> "handle_button_click", event |-> e,
                       exc |-> t.exc, raised |-> h.raised,
                       sends |-> h.sends, charts |-> t.charts]
           /\ UNCHANGED <<now, cache, botSet, stored, lastReq, pending, calls>>
           /\ UNCHANGED chartVars

(***************************************************************************)
(* HTTP front door: /analyze and /health (src/app/main.py)                 *)
(***************************************************************************)
\* Request bodies of /analyze: the key absent, null, or a string
Bodies ==
    {[has |-> FALSE, null |-> FALSE, symbol |-> <<>>],
     [has |-> TRUE, null |-> TRUE, symbol |-> <<>>]}
    \cup {[has |-> TRUE, null |-> FALSE, symbol |-> s] :
             s \in Symbols \cup {<<>>}}

\* data.get('symbol')
GetSymbol(body) ==
    IF body.has /\ ~body.null THEN [nil |-> FALSE, str |-> body.symbol]
                              ELSE [nil |-> TRUE, str |-> <<>>]

\* "not symbol"
NotSymbol(v) == v.nil \/ v.str = <<>>

\* analyzer.analyze(symbol) of SentimentAnalyzer: a text or an exception
AnalyzerResults ==
    {[exc |-> "Exception", text |-> ""]}
    \cup {[exc |-> "", text |-> t] : t \in Texts}

HTTPException(code) == [exc |-> "HTTPException", status_code |-> code]

\* Exception classes "except Exception" catches; fastapi's HTTPException
\* derives from Exception.
CaughtByExceptException == {"HTTPException", "Exception"}

\* Lines 116-121, the body of the try block
AnalyzeBody(body, analysis) ==
    IF NotSymbol(GetSymbol(body))
       THEN [exc |-> HTTPException(400), analyzed |-> 0]
    ELSE IF analysis.exc # ""
       THEN [exc |-> [exc |-> analysis.exc, status_code |-> 0], analyzed |-> 1]
    ELSE [exc |-> [exc |-> "", status_code |-> 200], analyzed |-> 1]

\* Lines 123-125: except Exception as e: raise HTTPException(500)
AnalyzeExcept(r) ==
    IF r.exc.exc \in CaughtByExceptException
       THEN [exc |-> HTTPException(500), analyzed |-> r.analyzed]
       ELSE r

\* POST /analyze
AnalyzeEndpoint ==
    \E body \in Bodies, analysis \in AnalyzerResults :
      \E r \in {AnalyzeExcept(AnalyzeBody(body, analysis))} :
         /\ last' = [op |-> "analyze", body |-> body,
                     status_code |-> r.exc.status_code,
                     analyzed |-> r.analyzed,
                     sentiment |-> IF r.exc.status_code = 200
                                      THEN analysis.text ELSE ""]
         /\ UNCHANGED <<now, cache, botSet, stored, lastReq, pending, calls>>
         /\ UNCHANGED chartVars

\* One probe of health_check: try: <probe>; status = "healthy"
\* except Exception: status = "unhealthy".  A client whose construction
\* failed at import is an unbound name, which raises inside the try.  The
\* messaging probe tests "if telegram_app.bot": the Bot object the
\* application was built with at lines 42-50, always truthy, so the probe
\* either passes or raises.
ProbeMutant(services, name, ok) ==
    [services |-> IF ok THEN [services.services EXCEPT ![name] = "healthy"]
                        ELSE services.services,
     ran |-> Append(services.ran, name),
     raised |-> ~ok]
Probe(services, name, ok) ==
    [services |-> [services.services EXCEPT
                      ![name] = IF ok THEN "healthy" ELSE "unhealthy"],
     ran |-> Append(services.ran, name),
     raised |-> FALSE]

Unknown ==
    [services |-> [n \in {"supabase", "redis", "telegram"} |-> "unknown"],
     ran |-> <<>>, raised |-> FALSE]

\* The three probes in order; an exception leaving one skips the rest.
Then(p, name, ok) == IF p.raised THEN p ELSE Probe(p, name, ok)

\* GET /health: the dict with the services, or on an exception of the body
\* {"status": "healthy", "message": ...}; HTTP 200 either way.
HealthCheck ==
    \E so \in BOOLEAN, ro \in BOOLEAN, to \in BOOLEAN :
      \E p \in {Then(Then(Then(Unknown, "supabase", so), "redis", ro),
                     "telegram", to)} :
         /\ last' = [op |-> "health", status_code |-> 200,
                     status |-> "healthy",
                     hasServices |-> ~p.raised,
                     services |-> p.services, ran |-> p.ran,
                     probes |-> <<so, ro, to>>]
         /\ UNCHANGED <<now, cache, botSet, stored, lastReq, pending, calls>>
         /\ UNCHANGED chartVars

(***************************************************************************)
(* Specification of the chart capture service                              *)
(***************************************************************************)
BotIdle ==
    /\ now = 0
    /\ cache = [k \in Keys |-> NoEntry]
    /\ botSet = FALSE
    /\ stored = [s \in Symbols |-> NothingStored]
    /\ lastReq = [s \in Symbols |-> NoRequests]
    /\ pending = {}
    /\ calls = 0
    /\ last = [op |-> "none"]

\* capture_tradingview_chart(symbol, interval, theme, max_retries) is entered
InitChart ==
    /\ pc = "loop"
    /\ max_retries \in 0..MaxRetriesArg
    /\ attempt = 0
    /\ after = "none"
    /\ browsers = 0
    /\ launched = 0
    /\ attempts = <<>>
    /\ screenshot = None
    /\ result = NoResult
    /\ response = 0
    /\ BotIdle

NextChart ==
    \/ CaptureLoop
    \/ SetupDriver
    \/ Navigate
    \/ Settle
    \/ Declutter
    \/ Capture
    \/ InnerExcept
    \/ Teardown
    \/ OuterExcept
    \/ GetChart

SpecChart == InitChart /\ [][NextChart]_vars

Returned == pc \in {"returned", "responded"}
AllFailed == \A i \in DOMAIN attempts : attempts[i].failed # "none"

\* C2: when every attempt fails, capture_tradingview_chart has made exactly
\* max_retries attempts when it returns, returns (None, False), and never
\* starts more than max_retries attempts.
C2_ExactlyMaxRetries ==
    /\ Len(attempts) <= max_retries
    /\ (Returned /\ AllFailed) =>
          /\ Len(attempts) = max_retries
          /\ result = <<None, FALSE>>

C2_Witness ==
    /\ Returned
    /\ max_retries = 3
    /\ Len(attempts) = 3
    /\ attempts[1].failed = "Setup"
    /\ attempts[2].failed = "Navigate"
    /\ attempts[3].failed = "Capture"
    /\ result = <<None, FALSE>>

\* C3: driver.quit is invoked exactly once in every attempt, whichever step
\* of the attempt failed and also when it succeeded, and a failing quit does
\* not change the attempt's result.
C3_TeardownOncePerAttempt ==
    Returned =>
       /\ \A i \in DOMAIN attempts : attempts[i].quits = 1
       /\ (AllFailed => result = <<None, FALSE>>)
       /\ (~AllFailed => result = <<screenshot, TRUE>>)

\* An attempt that ran Setup through Capture
Succeeded(i) == attempts[i].failed = "none"

\* What C11 says of the attempts and of the result: at most max_retries
\* launches, (screenshot, True) exactly when some attempt went through, no
\* attempt after the successful one, and nothing launched for max_retries = 0.
AttemptsAndResult ==
    /\ launched <= max_retries
    /\ Returned =>
          /\ (result = <<screenshot, TRUE>>) <=>
                (\E i \in DOMAIN attempts : Succeeded(i))
          /\ \A i \in DOMAIN attempts : Succeeded(i) => i = Len(attempts)
          /\ (max_retries = 0) => (launched = 0 /\ result = <<None, FALSE>>)

\* C11: capture_tradingview_chart launches at most max_retries browsers, at
\* most one is open at any time, each is closed before the next is launched
\* and before the function returns; it returns (screenshot, True) exactly
\* when some attempt completes, makes no attempt after a successful one, and
\* launches none for max_retries = 0.
C11_OneBrowserAtATime ==
    /\ AttemptsAndResult
    /\ browsers <= 1
    /\ (pc = "setup") => (browsers = 0)
    /\ Returned => (browsers = 0)

(***************************************************************************)
(* Specification of the sentiment fetcher                                  *)
(***************************************************************************)
ChartIdle ==
    /\ pc = "idle"
    /\ max_retries = 0
    /\ attempt = 0
    /\ after = "none"
    /\ browsers = 0
    /\ launched = 0
    /\ attempts = <<>>
    /\ screenshot = None
    /\ result = NoResult
    /\ response = 0

InitSentiment == BotIdle /\ ChartIdle

NextSentiment ==
    \/ Advance
    \/ AnalyzeBegin
    \/ AnalyzeFinish

SpecSentiment == InitSentiment /\ [][NextSentiment]_vars

\* The latest write under the symbol's key, as a call found it when it
\* started: a non-empty text written less than TTL seconds earlier.
FreshPrior(prior, start) ==
    prior.held /\ prior.val # "" /\ start - prior.at < TTL

\* C5 as claimed: two calls of analyze_sentiment for one symbol made within
\* 300 seconds of each other issue at most one language-model request.  Read
\* for calls that follow each other: a call that starts when no other call
\* for its symbol is waiting issues no request less than 300 seconds after
\* the previous request for the symbol.
C5_AtMostOneRequest ==
    \A p \in pending :
       (p.prevReq >= 0 /\ ~p.overlaps) => p.start - p.prevReq >= TTL

\* C5 as amended: a call whose cache read succeeds, and which starts less
\* than 300 seconds after the latest write under sentiment:{symbol} stored a
\* non-empty text, issues no language-model request and returns that text.
C5_HitAfterStore ==
    /\ \A p \in pending : ~FreshPrior(p.prior, p.start)
    /\ (last.op = "analyze_sentiment" /\ last.getOk
           /\ FreshPrior(last.prior, last.start)) =>
          /\ ~last.requested
          /\ last.ret = last.prior.val

C5_Witness ==
    /\ last.op = "analyze_sentiment"
    /\ last.getOk
    /\ FreshPrior(last.prior, last.start)
    /\ last.start > last.prior.at
    /\ lastReq[last.symbol] = last.prior.at
    /\ ~last.requested
    /\ last.ret = last.prior.val

\* C6: analyze_sentiment never raises and never returns an empty string; it
\* returns the cached value, the model's text or the fallback string.
C6_NeverEmpty ==
    last.op = "analyze_sentiment" =>
       /\ ~last.raised
       /\ last.ret # ""
       /\ last.ret \in Texts \cup {Fallback}

(***************************************************************************)
(* Specification of the bot process                                        *)
(***************************************************************************)
Init == BotIdle /\ ChartIdle

Next ==
    \/ Initialize
    \/ ProcessSignal
    \/ HandleButtonClick
    \/ AnalyzeEndpoint
    \/ HealthCheck

Spec == Init /\ [][Next]_vars

\* C1: /analyze answers 400 whenever the body has no symbol (key absent,
\* null or empty), and the analyzer is not called.
C1_MissingSymbol400 ==
    (last.op = "analyze" /\ NotSymbol(GetSymbol(last.body))) =>
       /\ last.status_code = 400
       /\ last.analyzed = 0

\* C4: process_signal attempts one send per matched identifier, in list
\* order, also after a failing one; it does not raise and returns status
\* "success" with sent_to the number of identifiers attempted.
C4_OneSendPerSubscriber ==
    last.op = "process_signal" =>
       /\ ~last.ret.raised
       /\ last.ret.status = "success"
       /\ last.ret.sent_to = Len(last.chat_ids)
       /\ Len(last.sends) = Len(last.chat_ids)
       /\ \A i \in DOMAIN last.sends :
             /\ last.sends[i].chat = last.chat_ids[i]
             /\ last.sends[i].kind = "signal"

C4_Witness ==
    /\ last.op = "process_signal"
    /\ last.chat_ids = <<ToStr(42), ToStr(7)>>
    /\ Len(last.sends) = 2
    /\ ~last.sends[1].ok
    /\ last.sends[2].ok
    /\ last.sends[2].chat = <<"7">>
    /\ last.ret.sent_to = 2

\* The generic error message reached the chat of the event.
Answered(l) ==
    \E i \in DOMAIN l.sends :
       /\ l.sends[i].kind = "error"
       /\ l.sends[i].chat = l.event.chat
       /\ l.sends[i].ok

\* C7: handle_button_click never raises, and when an exception occurred
\* during handling the generic error message has been sent to the
\* originating chat.
C7_NeverRaisesAlwaysAnswers ==
    last.op = "handle_button_click" =>
       /\ ~last.raised
       /\ (last.exc => Answered(last))

\* Payloads that start with an action the renderer emits
KnownPrefix(data) ==
    \/ StartsWith(data, CHART_)
    \/ StartsWith(data, SENTIMENT_)
    \/ StartsWith(data, CALENDAR_)

\* C8: for every callback payload that does not start with a known action
\* prefix, handle_button_click requests no chart, sends nothing and does
\* not raise.
C8_UnknownPayloadNoEffect ==
    (last.op = "handle_button_click" /\ last.event.hasData
       /\ ~KnownPrefix(last.event.data)) =>
       /\ last.sends = <<>>
       /\ last.charts = <<>>
       /\ ~last.raised

\* The same for the events that carry their chat: holds.
UnknownPayloadNoEffectWithChat ==
    (last.op = "handle_button_click" /\ last.event.hasData
       /\ last.event.hasChat /\ ~KnownPrefix(last.event.data)) =>
       /\ last.sends = <<>>
       /\ last.charts = <<>>
       /\ ~last.raised

\* C9: /health answers 200 with status "healthy" whatever probes fail; all
\* three probes run, and each service is reported "healthy" or "unhealthy"
\* according to its own probe.
C9_HealthAlways200 ==
    last.op = "health" =>
       /\ last.status_code = 200
       /\ last.status = "healthy"
       /\ last.hasServices
       /\ last.ran = <<"supabase", "redis", "telegram">>
       /\ \A i \in 1..3 :
             last.services[last.ran[i]] =
                IF last.probes[i] THEN "healthy" ELSE "unhealthy"

C9_Witness ==
    /\ last.op = "health"
    /\ last.probes = <<FALSE, TRUE, FALSE>>
    /\ last.status_code = 200
    /\ last.services["supabase"] = "unhealthy"
    /\ last.services["redis"] = "healthy"
    /\ last.services["telegram"] = "unhealthy"

\* C10: when no preference row matches, or the directory access fails,
\* process_signal sends nothing, does not raise and returns status
\* "success" with sent_to = 0.
C10_NoSubscribers ==
    (last.op = "process_signal" /\ (~last.dirOk \/ last.matched = 0)) =>
       /\ last.sends = <<>>
       /\ ~last.ret.raised
       /\ last.ret.status = "success"
       /\ last.ret.sent_to = 0

C10_Witness ==
    /\ last.op = "process_signal"
    /\ ~last.dirOk
    /\ last.matched > 0
    /\ botSet
    /\ last.sends = <<>>
    /\ last.ret.sent_to = 0

\* C12: for every signal, the chart payload send_signal_message puts on the
\* button is parsed by handle_button_click back into the signal's symbol
\* and timeframe, and the chart is requested for exactly that pair.
C12_PayloadRoundTrip ==
    \A sig \in Signals :
       (last.op = "handle_button_click" /\ last.event.hasData
          /\ last.event.hasChat /\ last.event.data = ChartPayload(sig)) =>
          last.charts = <<<<sig.symbol, sig.timeframe>>>>

\* The same for the signals whose symbol and timeframe hold no underscore.
RoundTripWithoutUnderscore ==
    \A sig \in Signals :
       (last.op = "handle_button_click" /\ last.event.hasData
          /\ last.event.hasChat /\ last.event.data = ChartPayload(sig)
          /\ \A i \in DOMAIN sig.symbol : sig.symbol[i] # "_"
          /\ \A j \in DOMAIN sig.timeframe : sig.timeframe[j] # "_") =>
          last.charts = <<<<sig.symbol, sig.timeframe>>>>

====
